---- MODULE Spec2Model ----
(***************************************************************************)
(* cfk - Console for Kafka.  A model of the terminal console's reducer     *)
(* (tui.Model.Update), its two modal forms (ClusterForm, TopicForm), the   *)
(* commands the reducer hands to the Bubble Tea runtime, the application   *)
(* core (core.App) and the Kafka client (kafka.Client).                    *)
(*                                                                         *)
(* Texts (names, input values, descriptions) are sequences of tokens; a   *)
(* token is one typed character or one indivisible word.                   *)
(*                                                                         *)
(* tui.Model is a Go value: Update works on a copy `m` and returns it.  A  *)
(* command closure created inside Update captures that local copy, and    *)
(* runs after Update has returned; what it assigns to m.state,            *)
(* m.topicForm, m.topicTable or m.topicList.Title reaches only the copy.   *)
(* What a closure reaches through a pointer (m.app, m.config) or through   *)
(* the backing array of a slice (a form's inputs) is shared.               *)
(***************************************************************************)
EXTENDS Integers, Sequences, FiniteSets, TLC

\* ------------------------------------------------------------ bounds
\* key presses with an effect, counted from start-up
MaxKeys == 5
\* longest value a key press may grow an input to
MaxLen == 1
\* commands running plus messages waiting
MaxPending == 1
\* topics a broker holds
MaxTopics == 3
\* kafka.Client objects made, and the largest partition count asked for, in the
\* runs of the App methods on the broker
MaxClients == 2
MaxPartitions == 3
\* events given to a form, characters typed into one input and closures and
\* messages pending, in the runs of the forms alone
FormKeys == 5
FormLen == 1
FormPending == 2
\* the same three bounds for the runs with overlapping commands
RaceKeys == 3
RaceLen == 1
RacePending == 2
\* and for the runs on the topic form
TopicKeys == 7
TopicLen == 2
TopicPending == 1
\* key presses in the runs that start with a profile named like an internal topic
ReservedKeys == 6
\* key presses in the runs on the form that e on a topic opens
EditKeys == 6
\* profiles in the list, in the runs of core.App alone
MaxProfiles == 2
\* key presses in the runs that are checked for progress
LiveKeys == 3

\* ------------------------------------------------------------ texts
Digits == <<"0", "1", "2", "3", "4", "5", "6", "7", "8", "9">>

DigitVal(c) == CHOOSE d \in 0..9 : Digits[d + 1] = c

IsDigit(c) == \E d \in 0..9 : Digits[d + 1] = c

RECURSIVE FormatInt(_)
\* fmt.Sprintf("%d", n) for n >= 0
FormatInt(n) ==
    IF n < 10 THEN <<Digits[n + 1]>>
    ELSE FormatInt(n \div 10) \o <<Digits[(n % 10) + 1]>>

RECURSIVE SkipSpace(_)
SkipSpace(t) == IF t # <<>> /\ Head(t) = " " THEN SkipSpace(Tail(t)) ELSE t

RECURSIVE TakeDigits(_)
TakeDigits(t) ==
    IF t # <<>> /\ IsDigit(Head(t)) THEN <<Head(t)>> \o TakeDigits(Tail(t)) ELSE <<>>

RECURSIVE DigitsVal(_, _)
DigitsVal(t, acc) ==
    IF t = <<>> THEN acc ELSE DigitsVal(Tail(t), acc * 10 + DigitVal(Head(t)))

\* fmt.Sscanf(value, "%d", &partitions): leading blanks are skipped, a sign is
\* accepted, the digits that follow are read, and whatever comes after them is
\* left unread.  ok is FALSE when no digit is found.
Sscanf(t) ==
    LET s == SkipSpace(t)
        neg == s # <<>> /\ Head(s) = "-"
        u == IF s # <<>> /\ Head(s) \in {"-", "+"} THEN Tail(s) ELSE s
        ds == TakeDigits(u)
    IN  [ok |-> ds # <<>>,
         n |-> IF ds = <<>> THEN 0
               ELSE IF neg THEN 0 - DigitsVal(ds, 0) ELSE DigitsVal(ds, 0)]

RECURSIVE Join(_)
\* strings.Join(list, ",")
Join(l) ==
    IF l = <<>> THEN <<>>
    ELSE IF Len(l) = 1 THEN l[1]
    ELSE l[1] \o <<",">> \o Join(Tail(l))

RECURSIVE SplitAcc(_, _)
SplitAcc(t, cur) ==
    IF t = <<>> THEN <<cur>>
    ELSE IF Head(t) = "," THEN <<cur>> \o SplitAcc(Tail(t), <<>>)
    ELSE SplitAcc(Tail(t), Append(cur, Head(t)))

\* strings.Split(value, ","): an empty value gives one empty element
Split(t) == SplitAcc(t, <<>>)

RECURSIVE TrimRight(_)
TrimRight(t) ==
    IF t # <<>> /\ t[Len(t)] = " " THEN TrimRight(SubSeq(t, 1, Len(t) - 1)) ELSE t

\* strings.TrimSpace
TrimSpace(t) == TrimRight(SkipSpace(t))

\* s without its i-th element
RemoveAt(s, i) == SubSeq(s, 1, i - 1) \o SubSeq(s, i + 1, Len(s))

RECURSIVE Perms(_)
\* the orders in which a Go map of these keys can be iterated
Perms(S) ==
    IF S = {} THEN {<<>>}
    ELSE UNION {{<<x>> \o p : p \in Perms(S \ {x})} : x \in S}

\* ------------------------------------------------------------ domain
\* the keys a press is drawn from
Runes == {"a", "b", "d", "e", "n", "q", "0"}

SpecialKeys == {"enter", "esc", "backspace", "tab", "shift+tab", "up", "down", "ctrl+c"}

Keys == Runes \cup SpecialKeys

FormStates == {"add_cluster", "edit_cluster", "add_topic", "edit_topic"}

ViewStates == {"clusters", "topics", "topic_details", "messages"} \cup FormStates

\* error values; NoErr is Go's nil error
NoErr == "nil"

ErrInvalidPartitions == "invalid number of partitions"

ErrClusterNotFound == "cluster not found in configuration"

\* config.KafkaClusterConfig
Profile(name, bootstrap, sasl) ==
    [Name |-> name, Bootstrap |-> bootstrap, Username |-> <<>>, Password |-> <<>>,
     SSL |-> FALSE, SASL |-> sasl, SASLType |-> IF sasl THEN <<"PLAIN">> ELSE <<>>]

\* the brokers that answer; any other address cannot be dialled
H1 == <<"h1:9092">>

H2 == <<"h2:9092">>

Hosts == {H1, H2}

\* the profiles of the configuration file at start-up
InitClusters == <<Profile(<<"a">>, <<H1>>, FALSE), Profile(<<"b">>, <<H2>>, TRUE)>>

\* ------------------------------------------------------------ config.yaml
\* config.yaml as the user writes it: each cluster entry under the keys the
\* mapstructure tags of KafkaClusterConfig name
ConfigFile(clusters) ==
    [i \in 1..Len(clusters) |->
        [name |-> clusters[i].Name, bootstrap_servers |-> clusters[i].Bootstrap,
         username |-> clusters[i].Username, password |-> clusters[i].Password,
         ssl |-> clusters[i].SSL, sasl |-> clusters[i].SASL,
         sasl_type |-> clusters[i].SASLType]]

\* SaveAppConfig: v.Set("clusters", config.Clusters) and v.WriteConfig().  The
\* structs carry no yaml tag, so each field is written under its lower-cased
\* field name.
SaveAppConfig(clusters) ==
    [i \in 1..Len(clusters) |->
        [name |-> clusters[i].Name, bootstrap |-> clusters[i].Bootstrap,
         username |-> clusters[i].Username, password |-> clusters[i].Password,
         ssl |-> clusters[i].SSL, sasl |-> clusters[i].SASL,
         sasltype |-> clusters[i].SASLType]]

\* the value an entry of the file holds under a key, the zero value when the key
\* is not there
Field(entry, key, zero) == IF key \in DOMAIN entry THEN entry[key] ELSE zero

\* LoadAppConfig: v.ReadInConfig() and v.Unmarshal(config).  Each field is read
\* from the key its mapstructure tag names.
LoadAppConfig(file) ==
    [i \in 1..Len(file) |->
        [Name |-> Field(file[i], "name", <<>>),
         Bootstrap |-> Field(file[i], "bootstrap_servers", <<>>),
         Username |-> Field(file[i], "username", <<>>),
         Password |-> Field(file[i], "password", <<>>),
         SSL |-> Field(file[i], "ssl", FALSE),
         SASL |-> Field(file[i], "sasl", FALSE),
         SASLType |-> Field(file[i], "sasl_type", <<>>)]]

\* the topics the brokers hold at start-up
InitTopics ==
    [h \in Hosts |->
        IF h = H1
        THEN {[Name |-> <<"__consumer_offsets">>, Partitions |-> 1],
              [Name |-> <<"orders">>, Partitions |-> 2]}
        ELSE {[Name |-> <<"payments">>, Partitions |-> 1]}]

\* ------------------------------------------------------------ items (item.go)
\* a *kafka.TopicInfo or a nil pointer: a sequence of one element or of none
NilInfo == <<>>

TopicInfo(name, partitions) == <<[Name |-> name, Partitions |-> partitions]>>

NewTopicItem(topicName, info) ==
    [itemTitle |-> topicName,
     itemDescription |->
        IF info = NilInfo THEN <<"Unknown details">>
        ELSE FormatInt(info[1].Partitions) \o <<" partitions">>,
     Data |-> info]

NewClusterItem(clusterName, bootstrapServers) ==
    [itemTitle |-> clusterName,
     itemDescription |->
        IF Len(bootstrapServers) = 0 THEN <<"No bootstrap servers">>
        ELSE IF Len(bootstrapServers) > 1
             THEN bootstrapServers[1] \o <<" (+">> \o FormatInt(Len(bootstrapServers) - 1)
                      \o <<" more)">>
             ELSE bootstrapServers[1],
     Data |-> NilInfo]

\* ------------------------------------------------------------ text input
\* textinput.Model.Update on the focused input: a rune is inserted at the cursor
\* (the end of the value), backspace deletes before it, other keys leave the value
InputUpdate(v, k) ==
    IF k \in Runes THEN Append(v, k)
    ELSE IF k = "backspace" /\ v # <<>> THEN SubSeq(v, 1, Len(v) - 1)
    ELSE v

\* ------------------------------------------------------------ ClusterForm
NavKeys == {"tab", "shift+tab", "up", "down"}

\* NewClusterForm(width, height, cluster); cluster is <<>> for nil, <<p>> otherwise
NewClusterForm(cluster) ==
    LET isEdit == cluster # <<>>
        c == IF isEdit THEN cluster[1]
             ELSE [Name |-> <<>>, Bootstrap |-> << <<>> >>, Username |-> <<>>,
                   Password |-> <<>>, SSL |-> FALSE, SASL |-> FALSE, SASLType |-> <<>>]
    IN  [inputs |-> <<c.Name, Join(c.Bootstrap), c.Username, c.Password>>,
         focusIndex |-> 0,
         buttonFocus |-> 0,
         cluster |-> c,
         isEdit |-> isEdit]

\* ClusterForm.Update, the focus keys
ClusterFormNav(f, k) ==
    IF k \in {"up", "shift+tab"}
    THEN IF f.focusIndex = -1
         THEN [f EXCEPT !.focusIndex = Len(f.inputs) - 1, !.buttonFocus = -1]
         ELSE IF f.focusIndex > 0
         THEN [f EXCEPT !.focusIndex = f.focusIndex - 1]
         ELSE [f EXCEPT !.focusIndex = -1, !.buttonFocus = 1]
    ELSE IF f.focusIndex = -1
         THEN IF f.buttonFocus < 1
              THEN [f EXCEPT !.buttonFocus = f.buttonFocus + 1]
              ELSE [f EXCEPT !.buttonFocus = -1, !.focusIndex = 0]
         ELSE IF f.focusIndex < Len(f.inputs) - 1
         THEN [f EXCEPT !.focusIndex = f.focusIndex + 1]
         ELSE [f EXCEPT !.focusIndex = -1, !.buttonFocus = 0]

\* ClusterForm.Update(msg): the form it returns and the command it returns
\* ("submit", "cancel" or "none"; the cursor-blink commands carry no state).
\* msg is a key, or "other" for a message that is no key.
ClusterFormUpdate(f, msg) ==
    IF msg \in NavKeys
    THEN [f |-> ClusterFormNav(f, msg), cmd |-> "none"]
    ELSE IF msg = "enter" /\ f.focusIndex = -1
    THEN [f |-> f, cmd |-> IF f.buttonFocus = 0 THEN "submit" ELSE "cancel"]
    ELSE IF f.focusIndex >= 0
    THEN [f |-> [f EXCEPT !.inputs[f.focusIndex + 1] =
                              InputUpdate(f.inputs[f.focusIndex + 1], msg)],
          cmd |-> "none"]
    ELSE [f |-> f, cmd |-> "none"]

\* a submit closure that does not look at isEdit
ClusterFormSubmitAdd(inputs, cluster, isEdit) ==
    [type |-> "ClusterAddedMsg",
     Cluster |-> [Name |-> inputs[1], Bootstrap |-> <<TrimSpace(inputs[2])>>,
                  Username |-> inputs[3], Password |-> inputs[4],
                  SSL |-> cluster.SSL, SASL |-> cluster.SASL, SASLType |-> cluster.SASLType]]

\* the submit closure of ClusterForm.Update, run over the inputs it reads
ClusterFormSubmit(inputs, cluster, isEdit) ==
    LET bootstrapServers == [i \in 1..Len(Split(inputs[2])) |-> TrimSpace(Split(inputs[2])[i])]
        c == [Name |-> inputs[1], Bootstrap |-> bootstrapServers,
              Username |-> inputs[3], Password |-> inputs[4],
              SSL |-> cluster.SSL, SASL |-> cluster.SASL, SASLType |-> cluster.SASLType]
    IN  [type |-> IF isEdit THEN "ClusterUpdatedMsg" ELSE "ClusterAddedMsg", Cluster |-> c]

\* ------------------------------------------------------------ TopicForm
\* a constructor that leaves isEdit at its zero value
NewTopicFormAdd(topicName, partitions) ==
    [inputs |-> <<topicName, IF topicName # <<>> THEN FormatInt(partitions) ELSE <<"1">> >>,
     focusIndex |-> IF topicName # <<>> THEN 1 ELSE 0,
     buttonFocus |-> 0,
     topicName |-> topicName,
     isEdit |-> FALSE]

\* NewTopicForm(width, height, topicName, partitions)
NewTopicForm(topicName, partitions) ==
    LET isEdit == topicName # <<>>
    IN  [inputs |-> <<topicName, IF isEdit THEN FormatInt(partitions) ELSE <<"1">> >>,
         focusIndex |-> IF isEdit THEN 1 ELSE 0,
         buttonFocus |-> 0,
         topicName |-> topicName,
         isEdit |-> isEdit]

\* focus keys that step past the last input before they reach the buttons
TopicFormNavPast(f, k) ==
    IF k \in {"up", "shift+tab"}
    THEN IF f.focusIndex = -1
         THEN [f EXCEPT !.focusIndex = Len(f.inputs) - 1, !.buttonFocus = -1]
         ELSE IF f.focusIndex > 0
         THEN [f EXCEPT !.focusIndex = f.focusIndex - 1]
         ELSE [f EXCEPT !.focusIndex = -1, !.buttonFocus = 1]
    ELSE IF f.focusIndex = -1
         THEN IF f.buttonFocus < 1
              THEN [f EXCEPT !.buttonFocus = f.buttonFocus + 1]
              ELSE [f EXCEPT !.buttonFocus = -1,
                             !.focusIndex = IF f.isEdit THEN 1 ELSE 0]
         ELSE IF f.focusIndex < Len(f.inputs)
         THEN [f EXCEPT !.focusIndex = f.focusIndex + 1]
         ELSE [f EXCEPT !.focusIndex = -1, !.buttonFocus = 0]

\* TopicForm.Update, the focus keys
TopicFormNav(f, k) ==
    IF k \in {"up", "shift+tab"}
    THEN IF f.focusIndex = -1
         THEN [f EXCEPT !.focusIndex = Len(f.inputs) - 1, !.buttonFocus = -1]
         ELSE IF f.focusIndex > 0
         THEN [f EXCEPT !.focusIndex = f.focusIndex - 1]
         ELSE [f EXCEPT !.focusIndex = -1, !.buttonFocus = 1]
    ELSE IF f.focusIndex = -1
         THEN IF f.buttonFocus < 1
              THEN [f EXCEPT !.buttonFocus = f.buttonFocus + 1]
              ELSE [f EXCEPT !.buttonFocus = -1,
                             !.focusIndex = IF f.isEdit THEN 1 ELSE 0]
         ELSE IF f.focusIndex < Len(f.inputs) - 1
         THEN [f EXCEPT !.focusIndex = f.focusIndex + 1]
         ELSE [f EXCEPT !.focusIndex = -1, !.buttonFocus = 0]

\* TopicForm.Update(msg): isEdit is first forced from topicName, then as ClusterForm,
\* but a key that reaches input 0 of an edit form is dropped
TopicFormUpdate(f0, msg) ==
    LET f == [f0 EXCEPT !.isEdit = (f0.topicName # <<>>)]
    IN  IF msg \in NavKeys
        THEN [f |-> TopicFormNav(f, msg), cmd |-> "none"]
        ELSE IF msg = "enter" /\ f.focusIndex = -1
        THEN [f |-> f, cmd |-> IF f.buttonFocus = 0 THEN "submit" ELSE "cancel"]
        ELSE IF f.focusIndex >= 0
        THEN IF f.isEdit /\ f.focusIndex = 0
             THEN [f |-> f, cmd |-> "none"]
             ELSE [f |-> [f EXCEPT !.inputs[f.focusIndex + 1] =
                                       InputUpdate(f.inputs[f.focusIndex + 1], msg)],
                   cmd |-> "none"]
        ELSE [f |-> f, cmd |-> "none"]

\* the submit closure of TopicForm.Update, run over the inputs it reads
TopicFormSubmit(inputs, topicName) ==
    LET scan == Sscanf(inputs[2])
        partitions == IF inputs[2] = <<>> THEN 1 ELSE scan.n
    IN  IF inputs[2] # <<>> /\ (~scan.ok \/ partitions < 1)
        THEN [type |-> "ErrorMsg", err |-> ErrInvalidPartitions]
        ELSE IF topicName # <<>>
        THEN [type |-> "TopicUpdatedMsg", OldName |-> topicName, Name |-> inputs[1],
              Partitions |-> partitions]
        ELSE [type |-> "TopicAddedMsg", Name |-> inputs[1], Partitions |-> partitions,
              ReplicationFactor |-> 1]

\* ------------------------------------------------------------ messages, commands
NullProfile == Profile(<<>>, <<>>, FALSE)

\* a tea.Msg; the fields a message type does not have keep these values.
\* by names the command that returned the message: it is no field of the Go
\* value and nothing in Update reads it; properties use it to tell whose result
\* a message is.
Msg0 ==
    [type |-> "none", Items |-> <<>>, err |-> NoErr, Cluster |-> NullProfile,
     OldName |-> <<>>, Name |-> <<>>, Partitions |-> 0, ReplicationFactor |-> 0,
     by |-> "start"]

Msg(fields) == fields @@ Msg0

ErrorMsg(e) == Msg([type |-> "ErrorMsg", err |-> e])

ItemsUpdatedMsg(items) == Msg([type |-> "ItemsUpdatedMsg", Items |-> items])

\* a command closure handed to the runtime: what it captured and where it stands.
\* live: inputs is the backing array the displayed form still uses.
Cmd0 ==
    [kind |-> "none", pc |-> "run", name |-> <<>>, partitions |-> 0, rf |-> 0,
     client |-> 0, upd |-> <<>>, inputs |-> <<>>, live |-> FALSE,
     topicName |-> <<>>, isEdit |-> FALSE, cluster |-> NullProfile]

Cmd(fields) == fields @@ Cmd0

\* UpdateClusterListCmd(clusters)()
ClusterItems(clusters) ==
    [i \in 1..Len(clusters) |-> NewClusterItem(clusters[i].Name, clusters[i].Bootstrap)]

\* ------------------------------------------------------------ state
VARIABLES
    m,          \* the tui.Model the runtime holds
    app,        \* core.App: Config.Clusters and KafkaClient (0 is nil, else a client)
    disk,       \* config.yaml: the cluster entries it holds
    clients,    \* the kafka.Client values made so far: Config and Conn (connected or nil)
    topics,     \* the topics of each broker
    inflight,   \* the commands the runtime is running
    queue,      \* the messages waiting for Update
    nkeys,      \* key presses so far
    quit        \* tea.Quit was returned

vars == <<m, app, disk, clients, topics, inflight, queue, nkeys, quit>>

\* NewModel(cfg, app)
NewModel ==
    [state |-> "clusters",
     clusterList |-> <<>>,
     topicList |-> [items |-> <<>>, Title |-> <<"Topics">>],
     clusterForm |-> NewClusterForm(<<>>),
     topicForm |-> NewTopicForm(<<>>, 0),
     err |-> NoErr,
     selectedItem |-> <<>>,
     selectedCluster |-> <<>>]

\* main and Start: the configuration is loaded, the model made, and the initial
\* UpdateClusterListCmd(cfg.Clusters) result sent to the program
Start(file) ==
    /\ m = NewModel
    /\ app = [Clusters |-> LoadAppConfig(file), KafkaClient |-> 0]
    /\ disk = file
    /\ clients = <<>>
    /\ topics = InitTopics
    /\ inflight = <<>>
    /\ queue = <<ItemsUpdatedMsg(ClusterItems(LoadAppConfig(file)))>>
    /\ nkeys = 0
    /\ quit = FALSE

Init == Start(ConfigFile(InitClusters))

\* ------------------------------------------------------------ Model.Update
\* what Update returns: the model, the command (<<>> for nil) and whether it is tea.Quit
Ret(mm, cmd) == [m |-> mm, cmd |-> cmd, quit |-> FALSE]

\* the "Update components based on current state" switch at the end of Update.
\* list.Model, table.Model and viewport.Model keep no state the reducer reads.
UpdateComponents(mm, msg) ==
    IF mm.state \in {"add_cluster", "edit_cluster"}
    THEN LET r == ClusterFormUpdate(mm.clusterForm, msg)
         IN  Ret([mm EXCEPT !.clusterForm = r.f],
                 IF r.cmd = "submit"
                 THEN <<Cmd([kind |-> "clustersubmit", inputs |-> r.f.inputs, live |-> TRUE,
                             cluster |-> r.f.cluster, isEdit |-> r.f.isEdit])>>
                 ELSE IF r.cmd = "cancel" THEN <<Cmd([kind |-> "clustercancel"])>>
                 ELSE <<>>)
    ELSE IF mm.state \in {"add_topic", "edit_topic"}
    THEN LET r == TopicFormUpdate(mm.topicForm, msg)
         IN  Ret([mm EXCEPT !.topicForm = r.f],
                 IF r.cmd = "submit"
                 THEN <<Cmd([kind |-> "topicsubmit", inputs |-> r.f.inputs, live |-> TRUE,
                             topicName |-> r.f.topicName, isEdit |-> r.f.isEdit])>>
                 ELSE IF r.cmd = "cancel" THEN <<Cmd([kind |-> "topiccancel"])>>
                 ELSE <<>>)
    ELSE Ret(mm, <<>>)

\* a search that does not compare names: the first profile, whatever the name
FindFirst(config, name) == IF config # <<>> THEN <<config[1]>> ELSE <<>>

\* the first profile of the configuration with this name, <<>> if there is none
FindCluster(config, name) ==
    IF \E i \in 1..Len(config) : config[i].Name = name
    THEN <<config[CHOOSE i \in 1..Len(config) :
               /\ config[i].Name = name
               /\ \A j \in 1..(i - 1) : config[j].Name # name]>>
    ELSE <<>>

\* a quit key pressed in any form view quits as well
QuitInForms(mm, k) == k \in {"ctrl+c", "q"}

\* Update, case "ctrl+c", "q": the key quits unless a form is the view
QuitKey(mm, k) == k \in {"ctrl+c", "q"} /\ mm.state \notin FormStates

\* a back navigation that knows b only
BackOnlyB(state, k) ==
    IF k = "b" /\ state \in {"topics", "topic_details", "messages"} THEN "clusters"
    ELSE "none"

\* Update, cases "backspace", "esc" and "b": the view state the key goes back
\* to, "none" where the key is no back key
BackTo(state, k) ==
    IF k \in {"backspace", "esc"} /\ state = "topics" THEN "clusters"
    ELSE IF k \in {"backspace", "esc"} /\ state = "topic_details" THEN "topics"
    ELSE IF k \in {"backspace", "esc"} /\ state = "messages" THEN "topic_details"
    ELSE IF k = "b" /\ state \in {"topics", "topic_details", "messages"} THEN "clusters"
    ELSE "none"

\* Update, case tea.KeyMsg.  sel is the index of the list's selected item, 0 when
\* SelectedItem() is nil; config is m.config.Clusters.
UpdateKey(mm, k, sel, config) ==
    LET title == IF sel = 0 THEN <<>>
                 ELSE IF mm.state = "clusters" THEN mm.clusterList[sel].itemTitle
                 ELSE mm.topicList.items[sel].itemTitle
    IN
    IF QuitKey(mm, k)
    THEN [m |-> mm, cmd |-> <<>>, quit |-> TRUE]
    ELSE IF k = "enter" /\ mm.state = "clusters" /\ sel # 0
    THEN Ret([mm EXCEPT !.selectedItem = title, !.selectedCluster = title],
             <<Cmd([kind |-> "connect", pc |-> "find", name |-> title])>>)
    ELSE IF k = "enter" /\ mm.state = "topics" /\ sel # 0
    THEN Ret([mm EXCEPT !.selectedItem = title],
             <<Cmd([kind |-> "topicinfo", name |-> title])>>)
    ELSE IF BackTo(mm.state, k) # "none"
    THEN Ret([mm EXCEPT !.state = BackTo(mm.state, k)], <<>>)
    ELSE IF k = "a" /\ mm.state = "clusters"
    THEN Ret([mm EXCEPT !.state = "add_cluster", !.clusterForm = NewClusterForm(<<>>)], <<>>)
    ELSE IF k = "n" /\ mm.state = "topics"
    THEN Ret([mm EXCEPT !.state = "add_topic", !.topicForm = NewTopicForm(<<>>, 0)], <<>>)
    ELSE IF k = "d" /\ mm.state = "clusters" /\ sel # 0
    THEN Ret(mm, <<Cmd([kind |-> "remove", pc |-> "read", name |-> title])>>)
    ELSE IF k = "d" /\ mm.state = "topics" /\ sel # 0
    THEN Ret(mm, <<Cmd([kind |-> "delete", name |-> title])>>)
    ELSE IF k = "e" /\ mm.state = "clusters" /\ sel # 0 /\ FindCluster(config, title) # <<>>
    THEN Ret([mm EXCEPT !.clusterForm = NewClusterForm(FindCluster(config, title)),
                        !.state = "edit_cluster"], <<>>)
    ELSE IF k = "e" /\ mm.state = "topics" /\ sel # 0
    THEN Ret([mm EXCEPT !.state = "edit_topic"],
             <<Cmd([kind |-> "edittopic", name |-> title])>>)
    ELSE UpdateComponents(mm, k)

\* ------------------------------------------------------------ core.App, the configuration
\* an AddCluster without the search for the name
AddAlways(a, dsk, cluster, saveOK) ==
    LET a2 == [a EXCEPT !.Clusters = Append(a.Clusters, cluster)]
    IN  IF saveOK
        THEN [app |-> a2, disk |-> SaveAppConfig(a2.Clusters), err |-> NoErr]
        ELSE [app |-> a2, disk |-> dsk, err |-> "failed to save configuration"]

\* App.AddCluster(cluster): the App, the file and the error it leaves.
\* saveOK: config.GetConfigDir and config.SaveAppConfig succeed.
AddCluster(a, dsk, cluster, saveOK) ==
    IF \E i \in 1..Len(a.Clusters) : a.Clusters[i].Name = cluster.Name
    THEN [app |-> a, disk |-> dsk, err |-> "cluster with name already exists"]
    ELSE LET a2 == [a EXCEPT !.Clusters = Append(a.Clusters, cluster)]
         IN  IF saveOK
             THEN [app |-> a2, disk |-> SaveAppConfig(a2.Clusters), err |-> NoErr]
             ELSE [app |-> a2, disk |-> dsk, err |-> "failed to save configuration"]

\* App.UpdateCluster(cluster)
UpdateCluster(a, dsk, cluster, saveOK) ==
    IF FindCluster(a.Clusters, cluster.Name) = <<>>
    THEN [app |-> a, disk |-> dsk, err |-> "cluster with name not found"]
    ELSE LET i == CHOOSE i \in 1..Len(a.Clusters) :
                      /\ a.Clusters[i].Name = cluster.Name
                      /\ \A j \in 1..(i - 1) : a.Clusters[j].Name # cluster.Name
             a2 == [a EXCEPT !.Clusters[i] = cluster]
         IN  IF saveOK
             THEN [app |-> a2, disk |-> SaveAppConfig(a2.Clusters), err |-> NoErr]
             ELSE [app |-> a2, disk |-> dsk, err |-> "failed to save configuration"]

\* the loop of App.RemoveCluster: updatedClusters
Without(clusters, name) == SelectSeq(clusters, LAMBDA c : c.Name # name)

\* App.RemoveCluster(name), called with no other call running beside it
RemoveCluster(a, dsk, name, saveOK) ==
    IF FindCluster(a.Clusters, name) = <<>>
    THEN [app |-> a, disk |-> dsk, err |-> "cluster with name not found"]
    ELSE LET a2 == [a EXCEPT !.Clusters = Without(a.Clusters, name)]
         IN  IF saveOK
             THEN [app |-> a2, disk |-> SaveAppConfig(a2.Clusters), err |-> NoErr]
             ELSE [app |-> a2, disk |-> dsk, err |-> "failed to save configuration"]

\* ------------------------------------------------------------ Update, the messages
IsTopic(items) ==
    /\ Len(items) > 0
    /\ items[1].itemTitle \in {<<"_schemas">>, <<"__consumer_offsets">>}

\* a list handler that takes a list result as the end of the error
UpdateItemsClearsErr(mm, items) ==
    IF mm.state = "topics" \/ (IsTopic(items) /\ mm.state \notin {"edit_topic", "add_topic"})
    THEN [mm EXCEPT !.state = IF mm.state \notin {"edit_topic", "add_topic"}
                               THEN "topics" ELSE mm.state,
                    !.topicList = [items |-> items,
                                   Title |-> <<"Topics in ">> \o mm.selectedCluster],
                    !.err = NoErr]
    ELSE IF mm.state = "clusters"
    THEN [mm EXCEPT !.clusterList = items, !.err = NoErr]
    ELSE mm

\* Update, case ItemsUpdatedMsg
UpdateItems(mm, items) ==
    IF mm.state = "topics" \/ (IsTopic(items) /\ mm.state \notin {"edit_topic", "add_topic"})
    THEN [mm EXCEPT !.state = IF mm.state \notin {"edit_topic", "add_topic"}
                               THEN "topics" ELSE mm.state,
                    !.topicList = [items |-> items,
                                   Title |-> <<"Topics in ">> \o mm.selectedCluster]]
    ELSE IF mm.state = "clusters"
    THEN [mm EXCEPT !.clusterList = items]
    ELSE mm

\* an error handler that lists the clusters again
RetryOnError(mm, err) == Ret([mm EXCEPT !.err = err], <<Cmd([kind |-> "clusterlist"])>>)

\* an error handler that goes back to the cluster list
ErrorClosesView(mm, err) == Ret([mm EXCEPT !.err = err, !.state = "clusters"], <<>>)

\* Update, case ErrorMsg
UpdateError(mm, err) == Ret([mm EXCEPT !.err = err], <<>>)

\* Update on a message taken from the queue: the model and command it returns, and
\* the App and file it leaves (AddCluster and UpdateCluster run inside Update)
UpdateMsg(mm, msg, a, dsk, saveOK) ==
    LET Same(r) == [m |-> r.m, cmd |-> r.cmd, app |-> a, disk |-> dsk]
    IN
    IF msg.type = "ItemsUpdatedMsg"
    THEN Same(Ret(UpdateItems(mm, msg.Items), <<>>))
    ELSE IF msg.type = "ErrorMsg"
    THEN Same(UpdateError(mm, msg.err))
    ELSE IF msg.type = "ClusterAddedMsg"
    THEN LET r == AddCluster(a, dsk, msg.Cluster, saveOK)
         IN  IF r.err # NoErr
             THEN [m |-> [mm EXCEPT !.err = r.err], cmd |-> <<>>, app |-> r.app, disk |-> r.disk]
             ELSE [m |-> [mm EXCEPT !.state = "clusters"],
                   cmd |-> <<Cmd([kind |-> "clusterlist"])>>, app |-> r.app, disk |-> r.disk]
    ELSE IF msg.type = "ClusterUpdatedMsg"
    THEN LET r == UpdateCluster(a, dsk, msg.Cluster, saveOK)
         IN  IF r.err # NoErr
             THEN [m |-> [mm EXCEPT !.err = r.err], cmd |-> <<>>, app |-> r.app, disk |-> r.disk]
             ELSE [m |-> [mm EXCEPT !.state = "clusters"],
                   cmd |-> <<Cmd([kind |-> "clusterlist"])>>, app |-> r.app, disk |-> r.disk]
    ELSE IF msg.type = "ClusterFormCancelledMsg"
    THEN Same(Ret([mm EXCEPT !.state = "clusters"], <<>>))
    ELSE IF msg.type = "TopicAddedMsg"
    THEN Same(Ret(mm, <<Cmd([kind |-> "create", name |-> msg.Name,
                             partitions |-> msg.Partitions, rf |-> msg.ReplicationFactor])>>))
    ELSE IF msg.type = "TopicUpdatedMsg"
    THEN Same(Ret(mm, <<Cmd([kind |-> "update", name |-> msg.OldName,
                             partitions |-> msg.Partitions])>>))
    ELSE IF msg.type = "TopicFormCancelledMsg"
    THEN Same(Ret([mm EXCEPT !.state = "topics"], <<>>))
    ELSE Same(UpdateComponents(mm, "other"))

\* ------------------------------------------------------------ core.App over kafka.Client
\* the guards of App.X and Client.X: a nil KafkaClient, then a nil Conn
ConnErr(a, cl) ==
    IF a.KafkaClient = 0 THEN "not connected to any Kafka cluster"
    ELSE IF ~cl[a.KafkaClient].Conn THEN "not connected to Kafka"
    ELSE NoErr

\* the broker the App's client is connected to
CurHost(a, cl) == cl[a.KafkaClient].Config.Bootstrap[1]

TopicNames(tp, h) == {t.Name : t \in tp[h]}

\* a GetTopicInfo without the two guards: it goes to the broker at once
GetTopicInfoUnguarded(a, cl, tp, topicName, ok) ==
    IF ~ok \/ ConnErr(a, cl) # NoErr
    THEN [err |-> "failed to read partitions for topic", info |-> NilInfo]
    ELSE IF topicName \notin TopicNames(tp, CurHost(a, cl))
    THEN [err |-> "topic not found", info |-> NilInfo]
    ELSE LET t == CHOOSE t \in tp[CurHost(a, cl)] : t.Name = topicName
         IN  [err |-> NoErr, info |-> TopicInfo(topicName, t.Partitions)]

\* App.GetTopicInfo(ctx, topicName); ok: the broker answers ReadPartitions
GetTopicInfo(a, cl, tp, topicName, ok) ==
    IF ConnErr(a, cl) # NoErr THEN [err |-> ConnErr(a, cl), info |-> NilInfo]
    ELSE IF ~ok THEN [err |-> "failed to read partitions for topic", info |-> NilInfo]
    ELSE IF topicName \notin TopicNames(tp, CurHost(a, cl))
    THEN [err |-> "topic not found", info |-> NilInfo]
    ELSE LET t == CHOOSE t \in tp[CurHost(a, cl)] : t.Name = topicName
         IN  [err |-> NoErr, info |-> TopicInfo(topicName, t.Partitions)]

\* UpdateTopicListCmd(app)(): the messages it can return.  Client.ListTopics
\* fails, or it collects the names in a Go map, so that they come in any order;
\* the GetTopicInfo calls that follow on the same connection answer.
UpdateTopicListCmd(a, cl, tp) ==
    IF ConnErr(a, cl) # NoErr
    THEN {ErrorMsg("failed to list topics: " \o ConnErr(a, cl))}
    ELSE {ErrorMsg("failed to list topics: failed to read partitions")} \cup
         {ItemsUpdatedMsg([i \in 1..Len(order) |->
              NewTopicItem(order[i], GetTopicInfo(a, cl, tp, order[i], TRUE).info)])
            : order \in Perms(TopicNames(tp, CurHost(a, cl)))}

\* App.CreateTopic; ok: the controller is reached and accepts the topic
CreateTopic(a, cl, tp, topicName, numPartitions, ok) ==
    IF ConnErr(a, cl) # NoErr THEN [err |-> ConnErr(a, cl), topics |-> tp]
    ELSE IF ~ok \/ topicName = <<>> \/ topicName \in TopicNames(tp, CurHost(a, cl))
    THEN [err |-> "failed to create topic", topics |-> tp]
    ELSE [err |-> NoErr,
          topics |-> [tp EXCEPT ![CurHost(a, cl)] =
                         @ \cup {[Name |-> topicName, Partitions |-> numPartitions]}]]

\* App.DeleteTopic; ok: the controller is reached
DeleteTopic(a, cl, tp, topicName, ok) ==
    IF ConnErr(a, cl) # NoErr THEN [err |-> ConnErr(a, cl), topics |-> tp]
    ELSE IF ~ok \/ topicName \notin TopicNames(tp, CurHost(a, cl))
    THEN [err |-> "failed to delete topic", topics |-> tp]
    ELSE [err |-> NoErr,
          topics |-> [tp EXCEPT ![CurHost(a, cl)] = {t \in @ : t.Name # topicName}]]

ErrNotGreater == "new partition count must be greater than current count"

ErrAdminClient == "updating partitions is supported but requires Kafka AdminClient API"

\* an UpdateTopicPartitions that sets the count it is given
SetPartitions(a, cl, tp, topicName, numPartitions, ok) ==
    IF ConnErr(a, cl) # NoErr THEN [err |-> ConnErr(a, cl), topics |-> tp]
    ELSE IF GetTopicInfo(a, cl, tp, topicName, ok).err # NoErr
    THEN [err |-> "failed to get topic info", topics |-> tp]
    ELSE [err |-> NoErr,
          topics |-> [tp EXCEPT ![CurHost(a, cl)] =
                         {IF t.Name = topicName
                          THEN [t EXCEPT !.Partitions = numPartitions] ELSE t : t \in @}]]

\* App.UpdateTopicPartitions; ok: the broker answers ReadPartitions.  Every path
\* returns an error and none sends a request that alters the topic.
UpdateTopicPartitions(a, cl, tp, topicName, numPartitions, ok) ==
    IF ConnErr(a, cl) # NoErr THEN [err |-> ConnErr(a, cl), topics |-> tp]
    ELSE LET r == GetTopicInfo(a, cl, tp, topicName, ok)
         IN  IF r.err # NoErr THEN [err |-> "failed to get topic info", topics |-> tp]
             ELSE IF numPartitions <= r.info[1].Partitions
             THEN [err |-> ErrNotGreater, topics |-> tp]
             ELSE [err |-> ErrAdminClient, topics |-> tp]

\* Client.Connect can succeed: a bootstrap server is configured and is a broker
CanDial(config) == Len(config.Bootstrap) > 0 /\ config.Bootstrap[1] \in Hosts

\* ------------------------------------------------------------ the event loop
Pending == Len(inflight) + Len(queue)

\* a key press grew an input past the longest value explored
Grown(old, new, maxLen) ==
    \E i \in 1..Len(new.inputs) :
        Len(new.inputs[i]) > Len(old.inputs[i]) /\ Len(new.inputs[i]) > maxLen

\* the indexes SelectedItem() can stand on in the list of the current view
SelIdx(mm) ==
    IF mm.state = "clusters" /\ mm.clusterList # <<>> THEN 1..Len(mm.clusterList)
    ELSE IF mm.state = "topics" /\ mm.topicList.items # <<>> THEN 1..Len(mm.topicList.items)
    ELSE {0}

\* the commands in flight after the forms went from those of `old` to those of `new`:
\* a submit closure reads the inputs of its form through the slice it captured, so
\* it sees what is typed later, until the model is given a newly made form
Alias(cmds, new, freshCluster, freshTopic) ==
    [i \in 1..Len(cmds) |->
        IF cmds[i].live /\ cmds[i].kind = "clustersubmit"
        THEN IF freshCluster THEN [cmds[i] EXCEPT !.live = FALSE]
             ELSE [cmds[i] EXCEPT !.inputs = new.clusterForm.inputs]
        ELSE IF cmds[i].live /\ cmds[i].kind = "topicsubmit"
        THEN IF freshTopic THEN [cmds[i] EXCEPT !.live = FALSE]
             ELSE [cmds[i] EXCEPT !.inputs = new.topicForm.inputs]
        ELSE cmds[i]]

\* the runtime reads a key of K and calls Update with it.  A press that changes
\* nothing and issues nothing is a stuttering step.
Press(K, maxKeys, maxLen, maxPending) ==
    /\ ~quit
    /\ nkeys < maxKeys
    /\ \E k \in K, sel \in SelIdx(m) :
          LET r == UpdateKey(m, k, sel, app.Clusters)
          IN  /\ r.m # m \/ r.cmd # <<>> \/ r.quit
              /\ ~Grown(m.clusterForm, r.m.clusterForm, maxLen)
              /\ ~Grown(m.topicForm, r.m.topicForm, maxLen)
              /\ Pending + Len(r.cmd) <= maxPending
              /\ m' = r.m
              /\ quit' = r.quit
              /\ inflight' = Alias(inflight, r.m,
                                   m.state = "clusters" /\ r.m.state \in FormStates,
                                   m.state = "topics" /\ r.m.state = "add_topic") \o r.cmd
    /\ nkeys' = nkeys + 1
    /\ UNCHANGED <<app, disk, clients, topics, queue>>

\* any key, one command at a time
KeyPress == Press(Keys, MaxKeys, MaxLen, MaxPending)

\* any key, while commands are still running
RaceKeyPress == Press(Keys, RaceKeys, RaceLen, RacePending)

\* the keys that open, fill in and submit the topic form
TopicFormKeys == {"enter", "n", "tab", "backspace", "0", "q"}

TopicKeyPress == Press(TopicFormKeys, TopicKeys, TopicLen, TopicPending)

\* Update, case tea.WindowSizeMsg: both forms are made anew
WindowSize ==
    /\ ~quit
    /\ m' = [m EXCEPT !.clusterForm = NewClusterForm(<<>>), !.topicForm = NewTopicForm(<<>>, 0)]
    /\ inflight' = Alias(inflight, m, TRUE, TRUE)
    /\ UNCHANGED <<app, disk, clients, topics, queue, nkeys, quit>>

\* the runtime takes the next message and calls Update with it
Deliver ==
    /\ ~quit
    /\ queue # <<>>
    /\ \E saveOK \in BOOLEAN :
          LET r == UpdateMsg(m, Head(queue), app, disk, saveOK)
          IN  /\ m' = r.m
              /\ app' = r.app
              /\ disk' = r.disk
              /\ inflight' = inflight \o r.cmd
    /\ queue' = Tail(queue)
    /\ UNCHANGED <<clients, topics, nkeys, quit>>

\* ------------------------------------------------------------ the commands
\* command i returns msgs (no message for a nil tea.Msg) and is gone
Finish(i, msgs) ==
    /\ inflight' = RemoveAt(inflight, i)
    /\ queue' = queue \o [j \in 1..Len(msgs) |-> [msgs[j] EXCEPT !.by = inflight[i].kind]]

\* a closure that assigns to m as if Update had a pointer receiver
Shared(live, written) == written

\* an assignment to m inside a closure: Update has a value receiver, the closure
\* captured its local copy of the model, and `written` is that copy afterwards;
\* the model the runtime holds stays as it is
Captured(live, written) == live

\* command i goes on with its next step
Step(i, c) == inflight' = [inflight EXCEPT ![i] = c] /\ UNCHANGED queue

\* enter on a cluster: App.ConnectToCluster up to a.KafkaClient = kafka.NewClient(...)
ConnectFind(i) ==
    /\ ~quit
    /\ inflight[i].kind = "connect" /\ inflight[i].pc = "find"
    /\ LET found == FindCluster(app.Clusters, inflight[i].name)
       IN  IF found = <<>>
           THEN /\ Finish(i, <<ErrorMsg(ErrClusterNotFound)>>)
                /\ UNCHANGED <<app, clients>>
           ELSE /\ clients' = Append(clients, [Config |-> found[1], Conn |-> FALSE])
                /\ app' = [app EXCEPT !.KafkaClient = Len(clients) + 1]
                /\ Step(i, [inflight[i] EXCEPT !.pc = "dial", !.client = Len(clients) + 1])
    /\ UNCHANGED <<m, disk, topics, nkeys, quit>>

\* a.KafkaClient.Connect(): the dial fails, or it succeeds and the connection is
\* stored in the client.  The client is read from a.KafkaClient without a lock:
\* it is the one this command stored or the one a connect running beside it has
\* stored since.
ConnectDial(i) ==
    /\ ~quit
    /\ inflight[i].kind = "connect" /\ inflight[i].pc = "dial"
    /\ \E ok \in BOOLEAN, c \in {inflight[i].client, app.KafkaClient} :
          IF ok /\ CanDial(clients[c].Config)
          THEN /\ clients' = [clients EXCEPT ![c].Conn = TRUE]
               /\ Step(i, [inflight[i] EXCEPT !.pc = "list"])
               /\ m' = Captured(m, [m EXCEPT !.state = "topics",
                                             !.topicList.Title =
                                                 <<"Topics in ">> \o inflight[i].name])
          ELSE /\ Finish(i, <<ErrorMsg("failed to connect to cluster")>>)
               /\ UNCHANGED <<clients, m>>
    /\ UNCHANGED <<app, disk, topics, nkeys, quit>>

\* the UpdateTopicListCmd(m.app)() that ends the connect, delete and create closures
ListStep(i) ==
    /\ ~quit
    /\ inflight[i].pc = "list"
    /\ \E msg \in UpdateTopicListCmd(app, clients, topics) : Finish(i, <<msg>>)
    /\ UNCHANGED <<m, app, disk, clients, topics, nkeys, quit>>

\* enter on a topic: GetTopicInfo; on success the closure sets the table rows and
\* the state of its own copy of the model and returns nil
TopicInfoCmd(i) ==
    /\ ~quit
    /\ inflight[i].kind = "topicinfo"
    /\ \E ok \in BOOLEAN :
          LET r == GetTopicInfo(app, clients, topics, inflight[i].name, ok)
          IN  IF r.err # NoErr
              THEN Finish(i, <<ErrorMsg(r.err)>>) /\ UNCHANGED m
              ELSE /\ Finish(i, <<>>)
                   /\ m' = Captured(m, [m EXCEPT !.state = "topic_details"])
    /\ UNCHANGED <<app, disk, clients, topics, nkeys, quit>>

\* e on a topic: GetTopicInfo; on success the closure makes the edit form in its
\* own copy of the model and returns the message of m.topicForm.Init()
EditTopicCmd(i) ==
    /\ ~quit
    /\ inflight[i].kind = "edittopic"
    /\ \E ok \in BOOLEAN :
          LET r == GetTopicInfo(app, clients, topics, inflight[i].name, ok)
          IN  IF r.err # NoErr
              THEN Finish(i, <<ErrorMsg(r.err)>>) /\ UNCHANGED m
              ELSE /\ Finish(i, <<Msg([type |-> "BlinkMsg"])>>)
                   /\ m' = Captured(m, [m EXCEPT
                               !.state = "edit_topic",
                               !.topicForm = NewTopicForm(inflight[i].name,
                                                          r.info[1].Partitions)])
    /\ UNCHANGED <<app, disk, clients, topics, nkeys, quit>>

\* d on a cluster: App.RemoveCluster, the loop that builds updatedClusters
RemoveRead(i) ==
    /\ ~quit
    /\ inflight[i].kind = "remove" /\ inflight[i].pc = "read"
    /\ IF FindCluster(app.Clusters, inflight[i].name) = <<>>
       THEN Finish(i, <<ErrorMsg("cluster with name not found")>>)
       ELSE Step(i, [inflight[i] EXCEPT !.pc = "write",
                                        !.upd = Without(app.Clusters, inflight[i].name)])
    /\ UNCHANGED <<m, app, disk, clients, topics, nkeys, quit>>

\* App.RemoveCluster from a.Config.Clusters = updatedClusters on, then
\* UpdateClusterListCmd(m.config.Clusters)()
RemoveWrite(i) ==
    /\ ~quit
    /\ inflight[i].kind = "remove" /\ inflight[i].pc = "write"
    /\ app' = [app EXCEPT !.Clusters = inflight[i].upd]
    /\ \E saveOK \in BOOLEAN :
          IF saveOK
          THEN /\ disk' = SaveAppConfig(inflight[i].upd)
               /\ Finish(i, <<ItemsUpdatedMsg(ClusterItems(inflight[i].upd))>>)
          ELSE /\ disk' = disk
               /\ Finish(i, <<ErrorMsg("failed to save configuration")>>)
    /\ UNCHANGED <<m, clients, topics, nkeys, quit>>

\* d on a topic: App.DeleteTopic
DeleteTopicCmd(i) ==
    /\ ~quit
    /\ inflight[i].kind = "delete" /\ inflight[i].pc = "run"
    /\ \E ok \in BOOLEAN :
          LET r == DeleteTopic(app, clients, topics, inflight[i].name, ok)
          IN  /\ topics' = r.topics
              /\ IF r.err # NoErr THEN Finish(i, <<ErrorMsg(r.err)>>)
                 ELSE Step(i, [inflight[i] EXCEPT !.pc = "list"])
    /\ UNCHANGED <<m, app, disk, clients, nkeys, quit>>

\* Update, case TopicAddedMsg, the closure: App.CreateTopic
CreateTopicCmd(i) ==
    /\ ~quit
    /\ inflight[i].kind = "create" /\ inflight[i].pc = "run"
    /\ \E ok \in BOOLEAN :
          LET r == CreateTopic(app, clients, topics, inflight[i].name,
                               inflight[i].partitions, ok)
          IN  /\ r.err = NoErr => Cardinality(topics[CurHost(app, clients)]) < MaxTopics
              /\ topics' = r.topics
              /\ IF r.err # NoErr THEN Finish(i, <<ErrorMsg(r.err)>>) /\ UNCHANGED m
                 ELSE /\ Step(i, [inflight[i] EXCEPT !.pc = "list"])
                      /\ m' = Captured(m, [m EXCEPT !.state = "topics"])
    /\ UNCHANGED <<app, disk, clients, nkeys, quit>>

\* Update, cases ClusterAddedMsg and ClusterUpdatedMsg, the closure
ClusterListCmd(i) ==
    /\ ~quit
    /\ inflight[i].kind = "clusterlist"
    /\ Finish(i, <<ItemsUpdatedMsg(ClusterItems(app.Clusters))>>)
    /\ UNCHANGED <<m, app, disk, clients, topics, nkeys, quit>>

\* the closures the forms return for enter on a button
FormCmd(i) ==
    /\ ~quit
    /\ inflight[i].kind \in {"clustersubmit", "clustercancel", "topicsubmit", "topiccancel"}
    /\ Finish(i,
          <<IF inflight[i].kind = "clustersubmit"
            THEN Msg(ClusterFormSubmit(inflight[i].inputs, inflight[i].cluster,
                                       inflight[i].isEdit))
            ELSE IF inflight[i].kind = "clustercancel"
            THEN Msg([type |-> "ClusterFormCancelledMsg"])
            ELSE IF inflight[i].kind = "topicsubmit"
            THEN Msg(TopicFormSubmit(inflight[i].inputs, inflight[i].topicName))
            ELSE Msg([type |-> "TopicFormCancelledMsg"])>>)
    /\ UNCHANGED <<m, app, disk, clients, topics, nkeys, quit>>

\* the runtime runs each command in a goroutine of its own
RunCmd ==
    \E i \in 1..Len(inflight) :
        \/ ConnectFind(i)
        \/ ConnectDial(i)
        \/ ListStep(i)
        \/ TopicInfoCmd(i)
        \/ EditTopicCmd(i)
        \/ RemoveRead(i)
        \/ RemoveWrite(i)
        \/ DeleteTopicCmd(i)
        \/ CreateTopicCmd(i)
        \/ ClusterListCmd(i)
        \/ FormCmd(i)

Next == KeyPress \/ WindowSize \/ Deliver \/ RunCmd

Spec == Init /\ [][Next]_vars

\* the commands three key presses can issue
RaceCmd ==
    \E i \in 1..Len(inflight) :
        \/ ConnectFind(i)
        \/ ConnectDial(i)
        \/ ListStep(i)
        \/ TopicInfoCmd(i)
        \/ EditTopicCmd(i)
        \/ RemoveRead(i)
        \/ RemoveWrite(i)
        \/ DeleteTopicCmd(i)
        \/ FormCmd(i)

RaceNext == RaceKeyPress \/ WindowSize \/ Deliver \/ RaceCmd

RaceSpec == Init /\ [][RaceNext]_vars

\* the commands the keys of the topic form can issue
TopicCmd ==
    \E i \in 1..Len(inflight) :
        \/ ConnectFind(i)
        \/ ConnectDial(i)
        \/ ListStep(i)
        \/ TopicInfoCmd(i)
        \/ CreateTopicCmd(i)
        \/ FormCmd(i)

TopicNext == TopicKeyPress \/ WindowSize \/ Deliver \/ TopicCmd

TopicSpec == Init /\ [][TopicNext]_vars

\* the keys that open the form of e on a topic, fill it in and submit it
EditFormKeys == {"enter", "e", "tab"}

EditKeyPress == Press(EditFormKeys, EditKeys, MaxLen, MaxPending)

EditCmd ==
    \E i \in 1..Len(inflight) :
        \/ ConnectFind(i)
        \/ ConnectDial(i)
        \/ ListStep(i)
        \/ TopicInfoCmd(i)
        \/ EditTopicCmd(i)
        \/ CreateTopicCmd(i)
        \/ FormCmd(i)

EditNext == EditKeyPress \/ WindowSize \/ Deliver \/ EditCmd

EditSpec == Init /\ [][EditNext]_vars

\* a configuration whose first profile is named like an internal topic
ReservedClusters ==
    <<Profile(<<"_schemas">>, <<H1>>, FALSE), Profile(<<"a">>, <<H1>>, FALSE)>>

ReservedInit == Start(ConfigFile(ReservedClusters))

ReservedKeyPress == Press(Keys, ReservedKeys, MaxLen, MaxPending)

ReservedNext == ReservedKeyPress \/ WindowSize \/ Deliver \/ RunCmd

ReservedSpec == ReservedInit /\ [][ReservedNext]_vars

\* ------------------------------------------------------------ progress
LiveKeyPress == Press(Keys, LiveKeys, MaxLen, MaxPending)

\* the steps of a command that wait for an answer of the broker: the calls on
\* the connection (ReadPartitions, Controller, CreateTopics, DeleteTopics), which
\* are made without a deadline and do not read the context they are given
BrokerCmd ==
    /\ ConnErr(app, clients) = NoErr
    /\ \E i \in 1..Len(inflight) :
           \/ ListStep(i)
           \/ TopicInfoCmd(i)
           \/ EditTopicCmd(i)
           \/ DeleteTopicCmd(i)

\* the steps of a command that end by themselves: work in memory and on the
\* file, the dial with its ten-second timeout, and the calls that return "not
\* connected" before they reach the connection
LocalCmd ==
    \E i \in 1..Len(inflight) :
        \/ ConnectFind(i)
        \/ ConnectDial(i)
        \/ RemoveRead(i)
        \/ RemoveWrite(i)
        \/ FormCmd(i)
        \/ /\ ConnErr(app, clients) # NoErr
           /\ ListStep(i) \/ TopicInfoCmd(i) \/ EditTopicCmd(i) \/ DeleteTopicCmd(i)

LiveNext == LiveKeyPress \/ WindowSize \/ Deliver \/ LocalCmd \/ BrokerCmd

\* the runtime keeps delivering messages and running the goroutines of the
\* commands; nothing makes a broker answer
LiveSpec == Init /\ [][LiveNext]_vars /\ WF_vars(Deliver) /\ WF_vars(LocalCmd)

\* ------------------------------------------------------------ core.App alone
\* the profiles the calls are made with
AppNames == {<<"a">>, <<"b">>, <<"c">>}

AppProfiles == {Profile(n, <<H1>>, s) : n \in AppNames, s \in BOOLEAN}

\* the program starts on an empty configuration or on the one of Init
AppInit == \E clusters \in {<<>>, InitClusters} : Start(ConfigFile(clusters))

\* a call of an App method returned r; the caller keeps an error as Update does
Returned(r) ==
    /\ Len(r.app.Clusters) <= MaxProfiles
    /\ app' = r.app
    /\ disk' = r.disk
    /\ m' = IF r.err # NoErr THEN [m EXCEPT !.err = r.err] ELSE m
    /\ UNCHANGED <<clients, topics, inflight, queue, nkeys, quit>>

AppAdd == \E p \in AppProfiles, saveOK \in BOOLEAN : Returned(AddCluster(app, disk, p, saveOK))

AppUpdate ==
    \E p \in AppProfiles, saveOK \in BOOLEAN : Returned(UpdateCluster(app, disk, p, saveOK))

AppRemove ==
    \E n \in AppNames, saveOK \in BOOLEAN : Returned(RemoveCluster(app, disk, n, saveOK))

\* the program is started again: main loads the configuration from the file
AppRestart ==
    /\ app' = [Clusters |-> LoadAppConfig(disk), KafkaClient |-> 0]
    /\ m' = NewModel
    /\ UNCHANGED <<disk, clients, topics, inflight, queue, nkeys, quit>>

AppNext == AppAdd \/ AppUpdate \/ AppRemove \/ AppRestart

AppSpec == AppInit /\ [][AppNext]_vars

\* ------------------------------------------------------------ core.App and kafka.Client alone
\* the topic names and the partition counts the calls are made with
CallTopics == {<<"orders">>, <<"a">>}

CallPartitions == 1..MaxPartitions

\* a call of an App method on the broker returned: the caller keeps its error
Answered(err, tp) ==
    /\ m' = [m EXCEPT !.err = err]
    /\ topics' = tp
    /\ UNCHANGED <<app, disk, clients, inflight, queue, nkeys, quit>>

\* App.ConnectToCluster(clusterName) for a cluster of the configuration
KafkaConnect ==
    /\ Len(clients) < MaxClients
    /\ \E i \in 1..Len(app.Clusters), ok \in BOOLEAN :
          LET found == FindCluster(app.Clusters, app.Clusters[i].Name)
          IN  /\ clients' = Append(clients, [Config |-> found[1],
                                             Conn |-> ok /\ CanDial(found[1])])
              /\ app' = [app EXCEPT !.KafkaClient = Len(clients) + 1]
              /\ m' = [m EXCEPT !.err = IF ok /\ CanDial(found[1]) THEN NoErr
                                        ELSE "failed to connect to cluster"]
    /\ UNCHANGED <<disk, topics, inflight, queue, nkeys, quit>>

KafkaList ==
    \E msg \in UpdateTopicListCmd(app, clients, topics) :
        Answered(IF msg.type = "ErrorMsg" THEN msg.err ELSE NoErr, topics)

KafkaInfo ==
    \E t \in CallTopics, ok \in BOOLEAN :
        Answered(GetTopicInfo(app, clients, topics, t, ok).err, topics)

KafkaCreate ==
    \E t \in CallTopics, n \in CallPartitions, ok \in BOOLEAN :
        LET r == CreateTopic(app, clients, topics, t, n, ok)
        IN  /\ r.err = NoErr => Cardinality(topics[CurHost(app, clients)]) < MaxTopics
            /\ Answered(r.err, r.topics)

KafkaDelete ==
    \E t \in CallTopics, ok \in BOOLEAN :
        LET r == DeleteTopic(app, clients, topics, t, ok) IN Answered(r.err, r.topics)

KafkaUpdate ==
    \E t \in CallTopics, n \in CallPartitions, ok \in BOOLEAN :
        LET r == UpdateTopicPartitions(app, clients, topics, t, n, ok)
        IN  Answered(r.err, r.topics)

KafkaNext ==
    KafkaConnect \/ KafkaList \/ KafkaInfo \/ KafkaCreate \/ KafkaDelete \/ KafkaUpdate

KafkaSpec == Init /\ [][KafkaNext]_vars

\* ------------------------------------------------------------ the forms alone
\* the four ways a form is opened: the view state and the form made for it
FormOpenings ==
    {[state |-> "add_cluster", clusterForm |-> NewClusterForm(<<>>),
      topicForm |-> NewTopicForm(<<>>, 0)],
     [state |-> "edit_cluster", clusterForm |-> NewClusterForm(<<InitClusters[1]>>),
      topicForm |-> NewTopicForm(<<>>, 0)],
     [state |-> "add_topic", clusterForm |-> NewClusterForm(<<>>),
      topicForm |-> NewTopicForm(<<>>, 0)],
     [state |-> "edit_topic", clusterForm |-> NewClusterForm(<<>>),
      topicForm |-> NewTopicForm(<<"orders">>, 2)]}

FormInit ==
    /\ \E o \in FormOpenings :
          m = [NewModel EXCEPT !.state = o.state, !.clusterForm = o.clusterForm,
                               !.topicForm = o.topicForm]
    /\ app = [Clusters |-> InitClusters, KafkaClient |-> 0]
    /\ disk = ConfigFile(InitClusters)
    /\ clients = <<>>
    /\ topics = InitTopics
    /\ inflight = <<>>
    /\ queue = <<>>
    /\ nkeys = 0
    /\ quit = FALSE

\* the open form is given a key, or a message that is no key, through the switch
\* at the end of Update; what it emits is not taken from the queue
FormEvent ==
    /\ nkeys < FormKeys
    /\ \E k \in Keys \cup {"other"} :
          LET r == UpdateComponents(m, k)
          IN  /\ r.m # m \/ r.cmd # <<>>
              /\ ~Grown(m.clusterForm, r.m.clusterForm, FormLen)
              /\ ~Grown(m.topicForm, r.m.topicForm, FormLen)
              /\ Pending + Len(r.cmd) <= FormPending
              /\ m' = r.m
              /\ inflight' = Alias(inflight, r.m, FALSE, FALSE) \o r.cmd
    /\ nkeys' = nkeys + 1
    /\ UNCHANGED <<app, disk, clients, topics, queue, quit>>

\* the runtime runs a closure a form returned
FormRun == \E i \in 1..Len(inflight) : FormCmd(i)

FormNext == FormEvent \/ FormRun

FormSpec == FormInit /\ [][FormNext]_vars

\* ------------------------------------------------------------ properties
\* Update took the message at the head of the queue
Consumed == queue # <<>> /\ queue' = Tail(queue)

ConsumedItems == Consumed /\ Head(queue).type = "ItemsUpdatedMsg"

\* Model.View: what is rendered, the error screen or the view of the state
View(mm) == IF mm.err # NoErr THEN "error" ELSE mm.state

\* the clients that hold a connection (Client.Conn is not nil)
OpenConnections == {i \in 1..Len(clients) : clients[i].Conn}

\* where the focus of a form is: the input, or the button when focusIndex is -1
Focus(f) == <<f.focusIndex, IF f.focusIndex = -1 THEN f.buttonFocus ELSE -1>>

RECURSIVE ClusterPresses(_, _, _)
\* the cluster form after key k is pressed n times
ClusterPresses(f, k, n) ==
    IF n = 0 THEN f ELSE ClusterPresses(ClusterFormUpdate(f, k).f, k, n - 1)

RECURSIVE TopicPresses(_, _, _)
\* the topic form after key k is pressed n times
TopicPresses(f, k, n) ==
    IF n = 0 THEN f ELSE TopicPresses(TopicFormUpdate(f, k).f, k, n - 1)

\* the text is a decimal numeral of a positive integer
IsPositiveInteger(t) ==
    /\ t # <<>>
    /\ \A i \in 1..Len(t) : IsDigit(t[i])
    /\ DigitsVal(t, 0) >= 1

\* the step is an AddCluster or UpdateCluster call that returned r without error
Saved(r) == r.err = NoErr /\ app' = r.app /\ disk' = r.disk

\* Update consumed the outcome of a submitted cluster form and persisted its profile
Persisted ==
    /\ Consumed
    /\ \E saveOK \in BOOLEAN :
          \/ /\ Head(queue).type = "ClusterAddedMsg"
             /\ Saved(AddCluster(app, disk, Head(queue).Cluster, saveOK))
          \/ /\ Head(queue).type = "ClusterUpdatedMsg"
             /\ Saved(UpdateCluster(app, disk, Head(queue).Cluster, saveOK))

\* C1: every command the reducer issued delivers exactly one result message:
\* in the step in which a command ends, the queue grows by exactly one message.
C1_OneResultPerCommand ==
    [][Len(inflight') < Len(inflight) => Len(queue') = Len(queue) + 1]_vars

\* C2: when the list result of a successful connect is consumed in the cluster
\* list view, the topic list becomes the current view and holds exactly the
\* returned topics, whatever their names, and the cluster list is untouched.
C2_EnterOpensTopicList ==
    [][(ConsumedItems /\ Head(queue).by = "connect" /\ m.state = "clusters")
          => /\ m'.state = "topics"
             /\ m'.topicList.items = Head(queue).Items
             /\ m'.clusterList = m.clusterList]_vars

\* C3: under any interleaving of key presses and command completions, a list
\* result with topic items never replaces the items of the cluster list, one with
\* cluster items never replaces the items of the topic list, and a list result
\* consumed while a form is the view changes neither the view state nor a form.
C3_RefreshOnlyWhereRelevant ==
    [][ConsumedItems
          => /\ Head(queue).by \in {"connect", "delete", "create"}
                    => m'.clusterList = m.clusterList
             /\ Head(queue).by \in {"start", "remove", "clusterlist"}
                    => m'.topicList.items = m.topicList.items
             /\ m.state \in FormStates
                    => /\ m'.state = m.state
                       /\ m'.clusterForm = m.clusterForm
                       /\ m'.topicForm = m.topicForm]_vars

\* C4: after any sequence of connects at most one cluster connection is open.
C4_OneConnection == Cardinality(OpenConnections) <= 1

\* C5: in an add form, from every reachable focus position, each focus key
\* pressed fieldCount + 2 times in a row brings the focus back to where it was.
C5_FocusCycle ==
    /\ m.state = "add_cluster" =>
          \A k \in NavKeys :
              Focus(ClusterPresses(m.clusterForm, k, Len(m.clusterForm.inputs) + 2))
                  = Focus(m.clusterForm)
    /\ m.state = "add_topic" =>
          \A k \in NavKeys :
              Focus(TopicPresses(m.topicForm, k, Len(m.topicForm.inputs) + 2))
                  = Focus(m.topicForm)

\* C6: in an edit form the name field (input 0) never holds the focus, in the
\* cluster form and in the topic form.
C6_LockedFieldNeverFocused ==
    /\ m.state = "edit_cluster" => m.clusterForm.focusIndex # 0
    /\ (m.state = "edit_topic" /\ m.topicForm.isEdit) => m.topicForm.focusIndex # 0

\* C7: in an edit form no sequence of keys changes the value of the name field:
\* it stays the name the form was opened with.
C7_IdentityUnchanged ==
    /\ m.state = "edit_cluster" => m.clusterForm.inputs[1] = m.clusterForm.cluster.Name
    /\ (m.state = "edit_topic" /\ m.topicForm.isEdit)
           => m.topicForm.inputs[1] = m.topicForm.topicName

\* C8: a topic form submitted with a partitions value that is no positive integer
\* yields the error "invalid number of partitions" and leaves the model as it
\* is; consuming that error issues no command and leaves view state and form.
C8_InvalidPartitionsRejected ==
    [][/\ \A i \in 1..Len(inflight) :
             (/\ inflight[i].kind = "topicsubmit"
              /\ inflight[i].inputs[2] # <<>>
              /\ ~IsPositiveInteger(inflight[i].inputs[2])
              /\ inflight' = RemoveAt(inflight, i))
                 => /\ Len(queue') = Len(queue) + 1
                    /\ queue'[Len(queue')].type = "ErrorMsg"
                    /\ queue'[Len(queue')].err = ErrInvalidPartitions
                    /\ m' = m
       /\ (Consumed /\ Head(queue).err = ErrInvalidPartitions)
             => /\ inflight' = inflight
                /\ m'.state = m.state
                /\ m'.topicForm = m.topicForm]_vars

\* C9: a validation failure of a form is not recorded as the latest error of the
\* model, and after it is consumed the form is still what is rendered.
C9_ValidationStaysInForm ==
    [][(Consumed /\ Head(queue).err = ErrInvalidPartitions /\ m.err = NoErr)
          => /\ m'.err = NoErr
             /\ View(m') = m.state]_vars

\* C10: a valid submit in add_topic returns TopicAddedMsg{name, partitions, 1} and
\* consuming it issues CreateTopic(name, partitions, 1); consuming a submit in
\* edit_topic issues UpdateTopicPartitions; and when the list result that follows
\* the successful call is consumed, the topic list is the view and holds it.
C10_TopicSubmit ==
    [][/\ \A i \in 1..Len(inflight) :
             (/\ inflight[i].kind = "topicsubmit"
              /\ m.state = "add_topic"
              /\ IsPositiveInteger(inflight[i].inputs[2])
              /\ inflight' = RemoveAt(inflight, i))
                 => queue'[Len(queue')] =
                        [Msg([type |-> "TopicAddedMsg", Name |-> inflight[i].inputs[1],
                              Partitions |-> DigitsVal(inflight[i].inputs[2], 0),
                              ReplicationFactor |-> 1]) EXCEPT !.by = "topicsubmit"]
       /\ (Consumed /\ Head(queue).type = "TopicAddedMsg")
             => inflight' = Append(inflight,
                    Cmd([kind |-> "create", name |-> Head(queue).Name,
                         partitions |-> Head(queue).Partitions, rf |-> 1]))
       /\ (Consumed /\ Head(queue).by = "topicsubmit" /\ m.state = "edit_topic"
               /\ Head(queue).type # "ErrorMsg")
             => /\ Len(inflight') = Len(inflight) + 1
                /\ inflight'[Len(inflight')].kind = "update"
       /\ (ConsumedItems /\ Head(queue).by \in {"create", "update"})
             => /\ m'.state = "topics"
                /\ m'.topicList.items = Head(queue).Items]_vars

\* C11: when the profile of a submitted cluster form is persisted, the cluster
\* list becomes the view state, the profile is in the profile list and a list
\* refresh is issued; the refresh returns the items of the profile list; and
\* when it is consumed in the cluster list view, that view stays and the cluster
\* list holds the returned items.
C11_SubmitRefreshesClusterList ==
    [][/\ Persisted
             => /\ m'.state = "clusters"
                /\ \E j \in 1..Len(app'.Clusters) : app'.Clusters[j] = Head(queue).Cluster
                /\ inflight' = Append(inflight, Cmd([kind |-> "clusterlist"]))
       /\ \A i \in 1..Len(inflight) :
             (inflight[i].kind = "clusterlist" /\ inflight' = RemoveAt(inflight, i))
                 => /\ Len(queue') = Len(queue) + 1
                    /\ queue'[Len(queue')].type = "ItemsUpdatedMsg"
                    /\ queue'[Len(queue')].Items = ClusterItems(app.Clusters)
       /\ (ConsumedItems /\ Head(queue).by = "clusterlist" /\ m.state = "clusters")
             => /\ m'.state = "clusters"
                /\ m'.clusterList = Head(queue).Items]_vars

\* the forms NewClusterForm can make: the add form and the edit form of a profile
FreshClusterForms ==
    {NewClusterForm(<<>>)}
        \cup {NewClusterForm(<<app.Clusters[j]>>) : j \in 1..Len(app.Clusters)}

\* the forms NewTopicForm can make: the add form and the edit form of a topic
FreshTopicForms ==
    {NewTopicForm(<<>>, 0)}
        \cup {NewTopicForm(t.Name, t.Partitions) : t \in UNION {topics[h] : h \in Hosts}}

\* C12: a cancel closure only returns its message; consuming a cancelled outcome
\* makes the list of the form's entity the view state, issues no command and
\* leaves profiles, file, connections and topics as they are; and whenever a
\* list view gives way to a form view, the form shown is a newly made one.
C12_CancelDiscardsForm ==
    [][/\ \A i \in 1..Len(inflight) :
             (/\ inflight[i].kind \in {"clustercancel", "topiccancel"}
              /\ inflight' = RemoveAt(inflight, i))
                 => UNCHANGED <<m, app, disk, clients, topics>>
       /\ (Consumed /\ Head(queue).type \in {"ClusterFormCancelledMsg", "TopicFormCancelledMsg"})
             => /\ m'.state = IF Head(queue).type = "ClusterFormCancelledMsg"
                              THEN "clusters" ELSE "topics"
                /\ inflight' = inflight
                /\ UNCHANGED <<app, disk, clients, topics>>
       /\ (m.state \notin FormStates /\ m'.state \in {"add_cluster", "edit_cluster"})
             => m'.clusterForm \in FreshClusterForms
       /\ (m.state \notin FormStates /\ m'.state \in {"add_topic", "edit_topic"})
             => m'.topicForm \in FreshTopicForms]_vars

\* C13: in each of the four list and detail views q and ctrl+c make Update return
\* tea.Quit; in each of the four form views they do not, Update does with them
\* what the form does with any key; and no step that ends the program starts in a
\* form view.
C13_QuitOnlyOutsideForms ==
    /\ [](\A k \in {"q", "ctrl+c"}, st \in ViewStates :
              LET mm == [m EXCEPT !.state = st]
                  r == UpdateKey(mm, k, 0, app.Clusters)
              IN  IF st \in FormStates
                  THEN ~r.quit /\ r = UpdateComponents(mm, k)
                  ELSE r.quit)
    /\ [][(quit' /\ ~quit) => m.state \notin FormStates]_vars

\* q was typed into the name field of a cluster form, and later, back in a list
\* view, a quit key ended the program
C13_Witness == quit /\ m.clusterForm.inputs[1] = <<"q">>

\* the outcomes of a form: submitted (the four typed messages) or cancelled
FormOutcomes ==
    {"ClusterAddedMsg", "ClusterUpdatedMsg", "TopicAddedMsg", "TopicUpdatedMsg",
     "ClusterFormCancelledMsg", "TopicFormCancelledMsg"}

\* C14: while a form view is the state, a key press leaves the view state and
\* issues at most a closure of the form (never connect, remove, delete, topic
\* info or edit topic), and the view state changes only in a step that consumes
\* a submitted or cancelled outcome of a form.
C14_FormHasExclusiveFocus ==
    [][m.state \in FormStates
          => /\ nkeys' = nkeys + 1
                   => /\ m'.state = m.state
                      /\ \A i \in 1..Len(inflight') :
                            i > Len(inflight)
                                => inflight'[i].kind \in {"clustersubmit", "clustercancel",
                                                          "topicsubmit", "topiccancel"}
             /\ m'.state # m.state
                   => Consumed /\ Head(queue).type \in FormOutcomes]_vars

\* command i ran a step: it ended, or it went on to its next position
Ran(i) ==
    \/ inflight' = RemoveAt(inflight, i)
    \/ Len(inflight') = Len(inflight) /\ inflight'[i] # inflight[i]

\* C15: when a connect command runs ConnectToCluster for a name that no profile
\* of the list carries, the command ends there with the error "cluster not
\* found in configuration" as its only result, no client is made, no connection
\* is opened and a.KafkaClient is untouched; and consuming that error leaves the
\* view state, so the topic list does not become the view.
C15_UnknownClusterFails ==
    [][/\ \A i \in 1..Len(inflight) :
             (/\ inflight[i].kind = "connect" /\ inflight[i].pc = "find"
              /\ \A j \in 1..Len(app.Clusters) : app.Clusters[j].Name # inflight[i].name
              /\ Ran(i))
                 => /\ inflight' = RemoveAt(inflight, i)
                    /\ queue' = Append(queue, [ErrorMsg(ErrClusterNotFound)
                                                  EXCEPT !.by = "connect"])
                    /\ UNCHANGED <<app, clients>>
       /\ (Consumed /\ Head(queue).err = ErrClusterNotFound)
             => m'.state = m.state /\ m'.err = ErrClusterNotFound]_vars

\* the error of a connect to an unknown name was consumed in the cluster list
C15_Witness == m.err = ErrClusterNotFound /\ m.state = "clusters"

\* the profiles of a list that equal p
Equal(clusters, p) == {j \in 1..Len(clusters) : clusters[j] = p}

\* C16: after a call AddCluster(p) that returns no error, the profiles loaded
\* from the file hold exactly one profile equal to p in name, endpoints,
\* credentials and flags.
C16_AddThenLoad ==
    [][\A p \in AppProfiles, saveOK \in BOOLEAN :
           (Saved(AddCluster(app, disk, p, saveOK)) /\ app' # app)
               => Cardinality(Equal(LoadAppConfig(disk'), p)) = 1]_vars

\* C17: no two profiles of the list share a name, and AddCluster with a name the
\* list holds returns the error "cluster with name already exists" and leaves
\* the list and the file as they are.
C17_NamesUnique ==
    /\ \A i, j \in 1..Len(app.Clusters) :
           app.Clusters[i].Name = app.Clusters[j].Name => i = j
    /\ \A p \in AppProfiles, saveOK \in BOOLEAN :
           (\E j \in 1..Len(app.Clusters) : app.Clusters[j].Name = p.Name)
               => AddCluster(app, disk, p, saveOK)
                      = [app |-> app, disk |-> disk, err |-> "cluster with name already exists"]

\* an AddCluster was rejected for its name, in a list that was added to (c),
\* removed from (a) and updated (b, which started with SASL)
C17_Witness ==
    /\ m.err = "cluster with name already exists"
    /\ Len(app.Clusters) = 2
    /\ \E i, j \in 1..2 :
           /\ app.Clusters[i].Name = <<"c">>
           /\ app.Clusters[j].Name = <<"b">> /\ ~app.Clusters[j].SASL

\* C18: when the remove command of d on a profile ends without error, the profile
\* list is the one before it less exactly the named profile, and the result
\* carries the items of that list; and when the result is consumed in the
\* cluster list view, that view stays, the cluster list holds the items (none
\* after the last profile went) and no error is recorded.
C18_RemoveRefreshesClusterList ==
    [][/\ \A i \in 1..Len(inflight) :
             (/\ inflight[i].kind = "remove" /\ inflight[i].pc = "write"
              /\ inflight' = RemoveAt(inflight, i)
              /\ queue'[Len(queue')].type = "ItemsUpdatedMsg")
                 => /\ app'.Clusters = Without(app.Clusters, inflight[i].name)
                    /\ queue'[Len(queue')].Items = ClusterItems(app'.Clusters)
       /\ (ConsumedItems /\ Head(queue).by = "remove" /\ m.state = "clusters")
             => /\ m'.state = "clusters"
                /\ m'.clusterList = Head(queue).Items
                /\ m'.err = m.err]_vars

\* command i ended and what it returned, if anything, is no error
EndedWell(i) ==
    /\ inflight' = RemoveAt(inflight, i)
    /\ Len(queue') > Len(queue) => queue'[Len(queue')].type # "ErrorMsg"

\* C19: in the topic list enter on a selected topic issues the GetTopicInfo
\* command for it; and when that command ends without error while the topic
\* list is the view state, topic_details becomes the view state, in that step or
\* in the step that consumes the command's result.
C19_EnterOpensTopicDetail ==
    /\ [](m.state = "topics" =>
              \A sel \in SelIdx(m) :
                  sel # 0 => UpdateKey(m, "enter", sel, app.Clusters).cmd
                                 = <<Cmd([kind |-> "topicinfo",
                                          name |-> m.topicList.items[sel].itemTitle])>>)
    /\ [][/\ \A i \in 1..Len(inflight) :
                (inflight[i].kind = "topicinfo" /\ EndedWell(i) /\ m.state = "topics")
                    => m'.state = "topic_details" \/ Len(queue') = Len(queue) + 1
          /\ (Consumed /\ Head(queue).by = "topicinfo" /\ Head(queue).type # "ErrorMsg"
                  /\ m.state = "topics")
                => m'.state = "topic_details"]_vars

\* C20: in the topic list e on a selected topic issues the GetTopicInfo command
\* for it; and when the result of a command that ended without error is consumed
\* in edit_topic, that stays the view state and the form is in edit mode, its
\* name field and topic name hold a topic of the broker and its partitions field
\* holds that topic's partition count.
C20_EditOpensSeededForm ==
    /\ [](m.state = "topics" =>
              \A sel \in SelIdx(m) :
                  sel # 0 => UpdateKey(m, "e", sel, app.Clusters).cmd
                                 = <<Cmd([kind |-> "edittopic",
                                          name |-> m.topicList.items[sel].itemTitle])>>)
    /\ [][(Consumed /\ Head(queue).by = "edittopic" /\ Head(queue).type # "ErrorMsg"
              /\ m.state = "edit_topic")
            => /\ m'.state = "edit_topic"
               /\ m'.topicForm.isEdit
               /\ \E t \in topics[CurHost(app, clients)] :
                     /\ m'.topicForm.topicName = t.Name
                     /\ m'.topicForm.inputs = <<t.Name, FormatInt(t.Partitions)>>]_vars

\* C21: in the topic list n and a each make add_topic the view state with a
\* newly made form: empty name, add mode, the default partitions value.
C21_NewTopicKeys ==
    m.state = "topics" =>
        \A k \in {"n", "a"}, sel \in SelIdx(m) :
            LET r == UpdateKey(m, k, sel, app.Clusters)
            IN  /\ r.m.state = "add_topic"
                /\ r.m.topicForm = NewTopicForm(<<>>, 0)
                /\ r.m.topicForm.inputs[1] = <<>>
                /\ ~r.m.topicForm.isEdit

\* C22: in the topic list esc, backspace and b each make Update return the
\* model with the cluster list as view state, nothing else changed, and no
\* command; in topic_details esc does so with the topic list and b with the
\* cluster list; and a key press that leaves the topic list for the cluster
\* list starts no command and queues no message.
C22_BackNavigation ==
    /\ [](\A sel \in 0..Len(m.topicList.items) :
              /\ \A k \in {"esc", "backspace", "b"} :
                     UpdateKey([m EXCEPT !.state = "topics"], k, sel, app.Clusters)
                         = Ret([m EXCEPT !.state = "clusters"], <<>>)
              /\ UpdateKey([m EXCEPT !.state = "topic_details"], "esc", sel, app.Clusters)
                     = Ret([m EXCEPT !.state = "topics"], <<>>)
              /\ UpdateKey([m EXCEPT !.state = "topic_details"], "b", sel, app.Clusters)
                     = Ret([m EXCEPT !.state = "clusters"], <<>>))
    /\ [][(nkeys' = nkeys + 1 /\ m.state = "topics" /\ m'.state = "clusters")
             => /\ m' = [m EXCEPT !.state = "clusters"]
                /\ Len(inflight') = Len(inflight)
                /\ UNCHANGED <<queue, app, disk, clients, topics>>]_vars

\* the topic list was shown and left again for the cluster list
C22_Witness ==
    /\ m.state = "clusters"
    /\ m.topicList.items # <<>>
    /\ nkeys >= 2
    /\ inflight = <<>> /\ queue = <<>>

\* C23: whenever the topic list becomes the view state, the step issues a
\* command that lists the topics, or it is the step that consumes the list of
\* topics a connect, create, delete or update command ended with.
C23_EnteringTopicListRefreshes ==
    [][(m.state # "topics" /\ m'.state = "topics")
          => \/ \E i \in (Len(inflight) + 1)..Len(inflight') : inflight'[i].pc = "list"
             \/ /\ ConsumedItems
                /\ Head(queue).by \in {"connect", "create", "delete", "update"}]_vars

\* C24: no command stays pending forever: from every state with a command in
\* flight the program reaches a state with none in flight (or has been quit),
\* also when a broker stops answering.
C24_CommandsResolve == (inflight # <<>>) ~> (inflight = <<>> \/ quit)

NoConnection == app.KafkaClient = 0 \/ ~clients[app.KafkaClient].Conn

\* the two errors that say so
NotConnected == {"not connected to any Kafka cluster", "not connected to Kafka"}

\* C26: while no connection is active, each of ListTopics, GetTopicInfo,
\* CreateTopic, DeleteTopic and UpdateTopicPartitions returns a not-connected
\* error for every argument and whatever the broker would answer, and leaves the
\* topics of every broker as they are; and a call made in such a state keeps
\* that error and changes no topic.
C26_NotConnectedFails ==
    /\ [](NoConnection =>
            /\ \A msg \in UpdateTopicListCmd(app, clients, topics) :
                  /\ msg.type = "ErrorMsg"
                  /\ \E e \in NotConnected : msg.err = "failed to list topics: " \o e
            /\ \A t \in CallTopics, n \in CallPartitions, ok \in BOOLEAN :
                  /\ GetTopicInfo(app, clients, topics, t, ok).err \in NotConnected
                  /\ GetTopicInfo(app, clients, topics, t, ok).info = NilInfo
                  /\ CreateTopic(app, clients, topics, t, n, ok).err \in NotConnected
                  /\ CreateTopic(app, clients, topics, t, n, ok).topics = topics
                  /\ DeleteTopic(app, clients, topics, t, ok).err \in NotConnected
                  /\ DeleteTopic(app, clients, topics, t, ok).topics = topics
                  /\ UpdateTopicPartitions(app, clients, topics, t, n, ok).err \in NotConnected
                  /\ UpdateTopicPartitions(app, clients, topics, t, n, ok).topics = topics)
    /\ [][(NoConnection /\ app' = app /\ clients' = clients)
             => /\ topics' = topics
                /\ \/ m' = m
                   \/ \E e \in NotConnected :
                         m'.err \in {e, "failed to list topics: " \o e}]_vars

\* a call was made on a client whose dial had failed
C26_Witness == app.KafkaClient # 0 /\ NoConnection /\ m.err = "not connected to Kafka"

\* C27: UpdateTopicPartitions returns an error whenever the count it is given is
\* not greater than the count the topic has, and changes no topic; and in no step
\* does a topic that stays on its broker have fewer partitions than before.
C27_PartitionsNeverDecrease ==
    /\ [](\A t \in CallTopics, n \in CallPartitions :
            LET cur == GetTopicInfo(app, clients, topics, t, TRUE)
                r == UpdateTopicPartitions(app, clients, topics, t, n, TRUE)
            IN  (cur.err = NoErr /\ n <= cur.info[1].Partitions)
                   => r.err = ErrNotGreater /\ r.topics = topics)
    /\ [][\A h \in Hosts : \A t \in topics[h], u \in topics'[h] :
             t.Name = u.Name => u.Partitions >= t.Partitions]_vars

\* the update of an existing topic to a count that is not greater was refused
C27_Witness == ~NoConnection /\ m.err = ErrNotGreater

\* the form of the view state
OpenForm(mm) ==
    IF mm.state \in {"add_cluster", "edit_cluster"} THEN mm.clusterForm ELSE mm.topicForm

\* C28: a form is made in edit mode exactly when it is made for an existing
\* cluster or topic; the topic form is in edit mode exactly when it holds a topic
\* name; and no key and no message given to a form changes isEdit, in the form
\* and in the closures it returned.
C28_IsEditFixed ==
    /\ [](/\ \A c \in {<<>>} \cup {<<p>> : p \in AppProfiles} :
                NewClusterForm(c).isEdit = (c # <<>>)
          /\ \A t \in {<<>>} \cup CallTopics, n \in CallPartitions :
                NewTopicForm(t, n).isEdit = (t # <<>>)
          /\ m.topicForm.isEdit = (m.topicForm.topicName # <<>>)
          /\ \A k \in Keys \cup {"other"} :
                /\ ClusterFormUpdate(m.clusterForm, k).f.isEdit = m.clusterForm.isEdit
                /\ TopicFormUpdate(m.topicForm, k).f.isEdit = m.topicForm.isEdit)
    /\ [][/\ m'.clusterForm.isEdit = m.clusterForm.isEdit
          /\ m'.topicForm.isEdit = m.topicForm.isEdit
          /\ Len(inflight') >= Len(inflight)
                => \A i \in 1..Len(inflight) : inflight'[i].isEdit = inflight[i].isEdit]_vars

\* the form that edits a topic took events that changed its partitions field
C28_Witness ==
    /\ m.state = "edit_topic" /\ m.topicForm.isEdit
    /\ nkeys >= 2 /\ m.topicForm.inputs[2] # <<"2">>

\* C29: in both forms focusIndex is -1 or the index of an input, and when it is
\* -1 buttonFocus is 0 (submit) or 1 (cancel).
C29_FocusInRange ==
    \A f \in {m.clusterForm, m.topicForm} :
        /\ f.focusIndex \in -1..(Len(f.inputs) - 1)
        /\ f.focusIndex = -1 => f.buttonFocus \in {0, 1}

\* the focus of the topic form went over both inputs to the cancel button
C29_Witness ==
    /\ m.state = "add_topic" /\ nkeys >= 3
    /\ m.topicForm.focusIndex = -1 /\ m.topicForm.buttonFocus = 1

\* the text of the partitions field passes the check of the submit closure
ValidPartitions(v) == v = <<>> \/ (Sscanf(v).ok /\ Sscanf(v).n >= 1)

\* an event given to the open form returns a closure exactly when it is enter
\* with the focus on the button row: the submit closure on button 0, the cancel
\* closure on the other, and the form is left as it was
EnterOnButton ==
    \A k \in Keys \cup {"other"} :
        LET r == UpdateComponents(m, k)
            f == OpenForm(m)
            cluster == m.state \in {"add_cluster", "edit_cluster"}
        IN  /\ Len(r.cmd) <= 1
            /\ r.cmd # <<>> <=> (k = "enter" /\ f.focusIndex = -1)
            /\ r.cmd # <<>> =>
                  /\ r.m = m
                  /\ r.cmd[1].kind =
                        IF f.buttonFocus = 0
                        THEN IF cluster THEN "clustersubmit" ELSE "topicsubmit"
                        ELSE IF cluster THEN "clustercancel" ELSE "topiccancel"
                  /\ r.cmd[1].isEdit = (f.buttonFocus = 0 /\ f.isEdit)

\* closure i ends and puts one message of this type on the queue
Emits(i, type) ==
    /\ Len(queue') = Len(queue) + 1
    /\ queue'[Len(queue')].type = type

CommandStep ==
    \/ \E i \in 1..Len(inflight) : inflight' = RemoveAt(inflight, i)
    \/ /\ Len(inflight') = Len(inflight)
       /\ \E i \in 1..Len(inflight) : inflight'[i].pc # inflight[i].pc

\* Update, case tea.WindowSizeMsg, ran: the runtime's own message, which makes
\* both forms anew
Resized ==
    m' = [m EXCEPT !.clusterForm = NewClusterForm(<<>>), !.topicForm = NewTopicForm(<<>>, 0)]

C33_ViewAndFormAgree ==
    /\ m.state = "edit_cluster" => m.clusterForm.isEdit
    /\ m.state = "edit_topic" => m.topicForm.isEdit /\ m.topicForm.topicName # <<>>
    /\ m.state = "add_cluster" => ~m.clusterForm.isEdit
    /\ m.state = "add_topic" => ~m.topicForm.isEdit

C35_FailedCallKeepsProfiles ==
    [][(m'.err # NoErr /\ m'.err # m.err) => app'.Clusters = app.Clusters]_vars

\* the names of the profiles in memory, and of the entries of config.yaml
ProfileNames(clusters) == {clusters[i].Name : i \in 1..Len(clusters)}

DiskNames(file) == {file[i].name : i \in 1..Len(file)}

\* C36: a removal that succeeded, so that the profile is in neither
\* a.Config.Clusters nor config.yaml, is not undone by a mutation running beside
\* it: the profile is in the list again only in a step in which Update consumes
\* a ClusterAddedMsg with that name.
C36_NoLostUpdate ==
    [][\A n \in ProfileNames(app'.Clusters) :
          (n \notin ProfileNames(app.Clusters) /\ n \notin DiskNames(disk))
             => /\ Consumed
                /\ Head(queue).type = "ClusterAddedMsg"
                /\ Head(queue).Cluster.Name = n]_vars

\* C37: while the topic list is the view, the App holds a client with an open
\* connection, and it is the client of the profile named by selectedCluster.
C37_HeaderNamesConnection ==
    m.state = "topics" =>
        /\ app.KafkaClient # 0
        /\ clients[app.KafkaClient].Conn
        /\ clients[app.KafkaClient].Config.Name = m.selectedCluster

\* C38: while the cluster list is the view and no command is running and no
\* result is waiting, the items of the cluster list are the profiles of
\* a.Config.Clusters: the same names in the same order.
C38_ClusterListIsCurrent ==
    (m.state = "clusters" /\ inflight = <<>> /\ queue = <<>>)
        => [i \in 1..Len(m.clusterList) |-> m.clusterList[i].itemTitle]
             = [i \in 1..Len(app.Clusters) |-> app.Clusters[i].Name]

\* C39: UpdateTopicPartitions returns an error for every topic, every count and
\* every answer of the broker; and what follows the submit of the form of
\* edit_topic is an error, never a topic list: while edit_topic is the view no
\* command puts the list that ends a CreateTopic or an UpdateTopicPartitions on
\* the queue.
C39_EditTopicEndsInError ==
    /\ [](\A t \in CallTopics, n \in CallPartitions, ok \in BOOLEAN :
             UpdateTopicPartitions(app, clients, topics, t, n, ok).err # NoErr)
    /\ [][(m.state = "edit_topic" /\ Len(queue') > Len(queue))
             => ~(/\ queue'[Len(queue')].type = "ItemsUpdatedMsg"
                  /\ queue'[Len(queue')].by \in {"create", "update"})]_vars

\* C40: when a ConnectToCluster call fails, because the profile is not found or
\* because the dial fails, and a connection had been established before, the
\* client the App holds afterwards is one with an open connection.
C40_FailedConnectKeepsConnection ==
    [][(/\ OpenConnections # {}
        /\ \E i \in 1..Len(inflight) :
              /\ inflight[i].kind = "connect" /\ inflight[i].pc \in {"find", "dial"}
              /\ inflight' = RemoveAt(inflight, i)
              /\ Len(queue') = Len(queue) + 1
              /\ queue'[Len(queue')].type = "ErrorMsg")
          => app'.KafkaClient \in OpenConnections]_vars

====
